---- MODULE Spec2Model ----
(***************************************************************************)
(* Model of the PDF rule checker backend (src/Backend/index.js): the       *)
(* POST /check-pdf handler and checkRuleWithLLM.                           *)
(*                                                                         *)
(* JavaScript values are tagged records.  A JavaScript string is a         *)
(* sequence of units: a plain text is a sequence of characters or words    *)
(* (TLA+ strings), a JSON text is a sequence of JSON tokens.               *)
(***************************************************************************)
EXTENDS Integers, Sequences, FiniteSets, TLC

(* ---------------------------------------------------------------------- *)
(* JavaScript values                                                      *)
(* ---------------------------------------------------------------------- *)
Undefined == [t |-> "undefined"]
Null == [t |-> "null"]
\* a number n/d; d = 1 for the integers
Num(n, d) == [t |-> "num", n |-> n, d |-> d]
Str(s) == [t |-> "str", s |-> s]
Bool(b) == [t |-> "bool", b |-> b]
\* an object: f maps its own property names to values
Obj(f) == [t |-> "obj", f |-> f]
Arr(a) == [t |-> "arr", a |-> a]

EmptyObj == Obj(<<>>)

\* ToBoolean: undefined, null, 0, "" and false are falsy
Truthy(v) ==
    CASE v.t = "undefined" -> FALSE
      [] v.t = "null" -> FALSE
      [] v.t = "num" -> v.n # 0
      [] v.t = "str" -> Len(v.s) > 0
      [] v.t = "bool" -> v.b
      [] OTHER -> TRUE

\* a || b
Or(a, b) == IF Truthy(a) THEN a ELSE b

\* v.k throws a TypeError on undefined and null
GetThrows(v) == v.t \in {"undefined", "null"}

\* v.k where it does not throw; only own properties of objects are modelled
Get(v, k) ==
    IF v.t = "obj" /\ k \in DOMAIN v.f THEN v.f[k] ELSE Undefined

\* v?.k
OptGet(v, k) == IF GetThrows(v) THEN Undefined ELSE Get(v, k)

\* a[i] for a 0-based index of an array value
Index(v, i) ==
    IF v.t = "arr" /\ i + 1 \in DOMAIN v.a THEN v.a[i + 1] ELSE Undefined

(* ---------------------------------------------------------------------- *)
(* Strings                                                                *)
(* ---------------------------------------------------------------------- *)
WhiteSpace == {" ", "\t", "\n"}

RECURSIVE TrimStart(_)
TrimStart(s) ==
    IF Len(s) > 0 /\ Head(s) \in WhiteSpace THEN TrimStart(Tail(s)) ELSE s

RECURSIVE TrimEnd(_)
TrimEnd(s) ==
    IF Len(s) > 0 /\ s[Len(s)] \in WhiteSpace
    THEN TrimEnd(SubSeq(s, 1, Len(s) - 1))
    ELSE s

\* String.prototype.trim on the units of a plain text
Trim(s) == TrimEnd(TrimStart(s))

(* ---------------------------------------------------------------------- *)
(* JSON texts: sequences of tokens                                        *)
(* ---------------------------------------------------------------------- *)
LB == [p |-> "["]
RB == [p |-> "]"]
COMMA == [p |-> ","]
\* a literal token: a scalar, a string or an object literal denoting v
Lit(v) == [lit |-> v]

IsLit(tok) == "lit" \in DOMAIN tok

SyntaxError == [ok |-> FALSE]
Parsed(v) == [ok |-> TRUE, value |-> v]

\* JSON.parse: a single literal, or a bracketed comma-separated list of literals
JSONParse(text) ==
    LET n == Len(text)
        inner == SubSeq(text, 2, n - 1)
        m == n - 2
    IN  IF n = 1 /\ IsLit(text[1]) THEN Parsed(text[1].lit)
        ELSE IF n >= 2 /\ text[1] = LB /\ text[n] = RB
        THEN IF m = 0 THEN Parsed(Arr(<<>>))
             ELSE IF /\ m % 2 = 1
                     /\ \A i \in 1..m :
                          IF i % 2 = 1 THEN IsLit(inner[i]) ELSE inner[i] = COMMA
             THEN Parsed(Arr([j \in 1..((m + 1) \div 2) |-> inner[2 * j - 1].lit]))
             ELSE SyntaxError
        ELSE SyntaxError

RECURSIVE JoinLits(_)
JoinLits(a) ==
    IF Len(a) = 0 THEN <<>>
    ELSE IF Len(a) = 1 THEN <<Lit(a[1])>>
    ELSE <<Lit(a[1]), COMMA>> \o JoinLits(Tail(a))

\* JSON.stringify of a scalar or of an array of scalars
JSONStringify(v) ==
    IF v.t = "arr" THEN <<LB>> \o JoinLits(v.a) \o <<RB>> ELSE <<Lit(v)>>

(* ---------------------------------------------------------------------- *)
(* Extracted document text: only its length is ever inspected             *)
(* ---------------------------------------------------------------------- *)
DocText(n) == [t |-> "text", length |-> n]

MAX_CHARS == 50000
MIN_TEXT_LENGTH == 50

\* documentText.length > MAX_CHARS ? documentText.slice(0, MAX_CHARS) : documentText
Truncate(documentText) ==
    IF documentText.length > MAX_CHARS THEN DocText(MAX_CHARS) ELSE documentText

\* the user message sent to the model
UserContent(rule, documentText) ==
    [rule |-> rule, documentText |-> Truncate(documentText)]

(* ---------------------------------------------------------------------- *)
(* checkRuleWithLLM                                                       *)
(* ---------------------------------------------------------------------- *)
Return(v) == [kind |-> "return", value |-> v]
Throw == [kind |-> "throw"]

Word(w) == Str(<<w>>)

\* the JSON text "{}"
EmptyObjText == <<Lit(EmptyObj)>>

LLMErrorVerdict(rule) ==
    [rule |-> rule,
     status |-> Word("fail"),
     evidence |-> Word("LLM Error"),
     reasoning |-> Word("LLM output was not valid JSON."),
     confidence |-> Num(0, 1)]

APIErrorVerdict(rule) ==
    [rule |-> rule,
     status |-> Word("fail"),
     evidence |-> Word("API Error"),
     reasoning |-> Word("Failed to communicate with the LLM API. Check OPENAI_API_KEY and billing status."),
     confidence |-> Num(0, 1)]

\* the verdict echoes the rule of the model's reply
EchoedVerdict(rule, parsed) ==
    [rule |-> Or(Get(parsed, "rule"), rule),
     status |-> Or(Get(parsed, "status"), Word("fail")),
     evidence |-> Or(Get(parsed, "evidence"), Word("No evidence found.")),
     reasoning |-> Or(Get(parsed, "reasoning"), Word("Failed to process LLM response.")),
     confidence |-> IF Get(parsed, "confidence").t = "num"
                    THEN Get(parsed, "confidence") ELSE Num(0, 1)]

\* the object literal returned after a successful parse (parsed is not null)
NormalizedVerdict(rule, parsed) ==
    [rule |-> rule,
     status |-> Or(Get(parsed, "status"), Word("fail")),
     evidence |-> Or(Get(parsed, "evidence"), Word("No evidence found.")),
     reasoning |-> Or(Get(parsed, "reasoning"), Word("Failed to process LLM response.")),
     confidence |-> IF Get(parsed, "confidence").t = "num"
                    THEN Get(parsed, "confidence") ELSE Num(0, 1)]

\* response.choices[0]?.message?.content || "{}", where it does not throw
MessageOf(response) ==
    Or(OptGet(OptGet(Index(Get(response, "choices"), 0), "message"), "content"),
       Str(EmptyObjText))

\* the body of the outer try block, given how the call to the model settled
TryBody(rule, outcome) ==
    IF outcome.kind = "reject" THEN Throw
    ELSE IF GetThrows(outcome.response) THEN Throw
    ELSE IF GetThrows(Get(outcome.response, "choices")) THEN Throw
    ELSE LET parse == JSONParse(MessageOf(outcome.response).s)
         IN  IF ~parse.ok THEN Return(LLMErrorVerdict(rule))
             ELSE IF GetThrows(parse.value) THEN Throw
             ELSE Return(NormalizedVerdict(rule, parse.value))

\* the function without its outer catch
CheckRuleNoCatch(rule, outcome) == TryBody(rule, outcome)

\* the function with a catch that handles only a rejected call
CheckRuleCatchRejectOnly(rule, outcome) ==
    IF outcome.kind = "reject" THEN Return(APIErrorVerdict(rule))
    ELSE TryBody(rule, outcome)

\* how the promise of checkRuleWithLLM(rule, documentText) settles
CheckRuleWithLLM(rule, outcome) ==
    LET r == TryBody(rule, outcome)
    IN  IF r.kind = "throw" THEN Return(APIErrorVerdict(rule)) ELSE r

(* ---------------------------------------------------------------------- *)
(* Requests, the parser library and the model's replies                   *)
(* ---------------------------------------------------------------------- *)
MaxRules == 2

PDF == "application/pdf"

File(mimetype) == Obj([mimetype |-> mimetype])

Files == {Undefined, File(PDF), File("text/plain")}

\* plain texts a caller may submit as a rule
RuleTexts ==
    {<<>>, <<" ", "\t">>, <<" ", "a", " ">>, <<"b", " ", "c">>}

\* entries of a submitted rules array
Entries == {Str(s) : s \in RuleTexts} \cup {Null, Num(0, 1), Num(7, 1)}

RulesLists == UNION {[1..n -> Entries] : n \in 0..MaxRules}

\* JSON texts that are no JSON
MalformedTexts ==
    {<<LB>>, <<LB, Lit(Word("a")), COMMA, RB>>, <<Lit(Null), Lit(Null)>>}

\* req.body.rules: absent, empty, a serialized value or a malformed text
RulesFields ==
    {Undefined, Str(<<>>)}
    \cup {Str(JSONStringify(Arr(l))) : l \in RulesLists}
    \cup {Str(JSONStringify(v)) : v \in {Null, Num(7, 1), EmptyObj}}
    \cup {Str(x) : x \in MalformedTexts}

\* which of its export shapes the pdf-parse library has
ParseLibs ==
    {[PDFParse |-> TRUE, isFunction |-> FALSE, default |-> FALSE],
     [PDFParse |-> FALSE, isFunction |-> TRUE, default |-> FALSE],
     [PDFParse |-> FALSE, isFunction |-> FALSE, default |-> TRUE],
     [PDFParse |-> FALSE, isFunction |-> FALSE, default |-> FALSE]}

\* a call that has not settled yet
Unsettled == [kind |-> "pending"]

\* how the call of the parser settles
ParserThrows == [kind |-> "throw"]
ParserReturns(pdfData) == [kind |-> "return", pdfData |-> pdfData]

ParserOutcomes ==
    {ParserThrows, ParserReturns(EmptyObj)}
    \cup {ParserReturns(Obj([text |-> DocText(n)])) :
            n \in {0, MIN_TEXT_LENGTH - 1, MIN_TEXT_LENGTH, MAX_CHARS + 1}}

\* how openai.chat.completions.create settles
Reject == [kind |-> "reject"]
Resolve(response) == [kind |-> "resolve", response |-> response]

\* a response with one choice whose message has the given content
Reply(content) ==
    Resolve(Obj([choices |-> Arr(<<Obj([message |-> Obj([content |-> content])])>>)]))

GoodObj ==
    Obj([rule |-> Word("echo"), status |-> Word("pass"), evidence |-> Word("e1"),
         reasoning |-> Word("r1"), confidence |-> Num(95, 1)])

ModelObjects ==
    {GoodObj,
     Obj([status |-> Word("maybe"), evidence |-> Word("e2"),
          reasoning |-> Word("r2"), confidence |-> Num(150, 1)]),
     Obj([status |-> Word("pass"), evidence |-> Num(5, 1),
          reasoning |-> Word("r3"), confidence |-> Num(0 - 5, 1)]),
     Obj([status |-> Word("fail"), evidence |-> Word("e4"),
          confidence |-> Num(1, 2)]),
     Obj([status |-> Str(<<>>), confidence |-> Word("95")])}

LLMOutcomes ==
    {Reject,
     Resolve(EmptyObj),
     Resolve(Obj([choices |-> Arr(<<>>)])),
     Reply(Null),
     Reply(Str(<<LB>>)),
     Reply(Str(<<Lit(Null)>>)),
     Reply(Str(<<Lit(Num(7, 1))>>))}
    \cup {Reply(Str(JSONStringify(o))) : o \in ModelObjects}

(* ---------------------------------------------------------------------- *)
(* State                                                                  *)
(* ---------------------------------------------------------------------- *)
VARIABLES
    pdfParseLib,   \* the required pdf-parse module
    file,          \* req.file
    rulesField,    \* req.body.rules
    pc,            \* where the handler is: "received", "parsing", "awaiting", "responded"
    parserResult,  \* how the call of the parser settled
    documentText,  \* the extracted text, once extraction succeeded
    llmCalls,      \* the calls issued to the model, in issue order, and how each settled
    ruleChecks,    \* the promises of the rule checks, by index
    res            \* the response

vars ==
    <<pdfParseLib, file, rulesField, pc, parserResult, documentText, llmCalls,
      ruleChecks, res>>

NoResponse == [sent |-> FALSE]
ErrorResponse(status, message) ==
    [sent |-> TRUE, status |-> status, body |-> [error |-> message]]
ResultsResponse(results) ==
    [sent |-> TRUE, status |-> 200, body |-> [results |-> results]]

ErrMalformedRules == "Rules data is malformed."
ErrMissingFile == "PDF file is required"
ErrUnsupportedFileType == "Only PDF files are supported."
ErrNoRules == "At least one rule is required"
ErrParserNotFound == "Server misconfiguration: PDF parser not found."
ErrExtractionFailed == "Failed to read PDF content."
ErrInsufficientContent ==
    "Extracted PDF text is too short or empty. Please check the PDF content."
ErrInternal == "Internal server error"

Init ==
    /\ pdfParseLib \in ParseLibs
    /\ file \in Files
    /\ rulesField \in RulesFields
    /\ pc = "received"
    /\ parserResult = Unsettled
    /\ documentText = Undefined
    /\ llmCalls = <<>>
    /\ ruleChecks = <<>>
    /\ res = NoResponse

(* ---------------------------------------------------------------------- *)
(* POST /check-pdf                                                        *)
(* ---------------------------------------------------------------------- *)
\* JSON.parse(req.body.rules || "[]")
ParseRules(field) == JSONParse(Or(field, Str(<<LB, RB>>)).s)

\* the export of the library chosen as the parser, "none" when there is none
SelectParser(lib) ==
    IF lib.PDFParse THEN "PDFParse"
    ELSE IF lib.isFunction THEN "pdfParseLib"
    ELSE IF lib.default THEN "default"
    ELSE "none"

\* the early returns with the rules examined before the file
ValidateRulesFirst(f, field, lib) ==
    LET p == ParseRules(field)
    IN  IF ~p.ok THEN ErrorResponse(400, ErrMalformedRules)
        ELSE IF p.value.t # "arr" \/ Len(p.value.a) = 0
        THEN ErrorResponse(400, ErrNoRules)
        ELSE IF ~Truthy(f) THEN ErrorResponse(400, ErrMissingFile)
        ELSE IF Get(f, "mimetype") # PDF
        THEN ErrorResponse(400, ErrUnsupportedFileType)
        ELSE IF SelectParser(lib) = "none"
        THEN ErrorResponse(500, ErrParserNotFound)
        ELSE NoResponse

\* the early returns before the parser is called; NoResponse when none is taken
Validate(f, field, lib) ==
    LET p == ParseRules(field)
    IN  IF ~p.ok THEN ErrorResponse(400, ErrMalformedRules)
        ELSE IF ~Truthy(f) THEN ErrorResponse(400, ErrMissingFile)
        ELSE IF Get(f, "mimetype") # PDF
        THEN ErrorResponse(400, ErrUnsupportedFileType)
        ELSE IF p.value.t # "arr" \/ Len(p.value.a) = 0
        THEN ErrorResponse(400, ErrNoRules)
        ELSE IF SelectParser(lib) = "none"
        THEN ErrorResponse(500, ErrParserNotFound)
        ELSE NoResponse

\* documentText.length < 50, one character too lenient
TooShortOffByOne(text) == text.length < MIN_TEXT_LENGTH - 1

\* documentText.length < 50
TooShort(text) == text.length < MIN_TEXT_LENGTH

\* r && r.trim(), where it does not throw
FilterKeeps(r) == Truthy(r) /\ Truthy(Str(Trim(r.s)))

\* r && r.trim() throws when a truthy r has no trim method
FilterThrows(r) == Truthy(r) /\ r.t # "str"

\* rules.filter((r) => r && r.trim()): the kept entries, or a throw
RECURSIVE Filter(_)
Filter(rules) ==
    IF Len(rules) = 0 THEN [threw |-> FALSE, kept |-> <<>>]
    ELSE IF FilterThrows(Head(rules)) THEN [threw |-> TRUE, kept |-> <<>>]
    ELSE LET rest == Filter(Tail(rules))
         IN  IF rest.threw THEN rest
             ELSE IF FilterKeeps(Head(rules))
             THEN [threw |-> FALSE, kept |-> <<Head(rules)>> \o rest.kept]
             ELSE rest

\* a single loop that tests an entry and calls the model for it at once
RECURSIVE FusedFanOut(_)
FusedFanOut(rules) ==
    IF Len(rules) = 0 THEN [threw |-> FALSE, calls |-> <<>>]
    ELSE IF FilterThrows(Head(rules)) THEN [threw |-> TRUE, calls |-> <<>>]
    ELSE LET rest == FusedFanOut(Tail(rules))
         IN  IF FilterKeeps(Head(rules))
             THEN [threw |-> rest.threw,
                   calls |-> <<Str(Trim(Head(rules).s))>> \o rest.calls]
             ELSE rest

\* rules.filter(...).map(async (rule) => checkRuleWithLLM(rule.trim(), ...)):
\* the rule arguments of the calls started, in order, or a throw of the filter
FanOut(rules) ==
    LET f == Filter(rules)
    IN  IF f.threw THEN [threw |-> TRUE, calls |-> <<>>]
        ELSE [threw |-> FALSE,
              calls |-> [i \in 1..Len(f.kept) |-> Str(Trim(f.kept[i].s))]]

Pending(rule) == [state |-> "pending", rule |-> rule]
Fulfilled(value) == [state |-> "fulfilled", value |-> value]
Rejected == [state |-> "rejected"]

\* the promise of an async call that settled as r
Settled(r) == IF r.kind = "return" THEN Fulfilled(r.value) ELSE Rejected

\* The handler from its start to the await of the parser.
HandleRequest ==
    /\ pc = "received"
    /\ LET r == Validate(file, rulesField, pdfParseLib)
       IN  IF r.sent
           THEN /\ res' = r
                /\ pc' = "responded"
           ELSE /\ res' = res
                /\ pc' = "parsing"
    /\ UNCHANGED <<pdfParseLib, file, rulesField, parserResult, documentText, llmCalls,
                   ruleChecks>>

\* What the handler does with the settled parser call, up to the await of
\* Promise.all.
AfterParse(o) ==
    IF o.kind = "throw"
    THEN /\ res' = ErrorResponse(500, ErrExtractionFailed)
         /\ pc' = "responded"
         /\ UNCHANGED <<documentText, llmCalls, ruleChecks>>
    ELSE IF GetThrows(o.pdfData)
    THEN /\ res' = ErrorResponse(500, ErrInternal)
         /\ pc' = "responded"
         /\ UNCHANGED <<documentText, llmCalls, ruleChecks>>
    ELSE LET text == Or(Get(o.pdfData, "text"), DocText(0))
             fan == FanOut(ParseRules(rulesField).value.a)
         IN  /\ documentText' = text
             /\ IF TooShort(text)
                THEN /\ res' = ErrorResponse(400, ErrInsufficientContent)
                     /\ pc' = "responded"
                     /\ UNCHANGED <<llmCalls, ruleChecks>>
                ELSE /\ llmCalls' =
                          [i \in 1..Len(fan.calls) |->
                              [content |-> UserContent(fan.calls[i], text),
                               outcome |-> Unsettled]]
                     /\ IF fan.threw
                        THEN /\ res' = ErrorResponse(500, ErrInternal)
                             /\ pc' = "responded"
                             /\ UNCHANGED ruleChecks
                        ELSE /\ ruleChecks' =
                                  [i \in 1..Len(fan.calls) |-> Pending(fan.calls[i])]
                             /\ pc' = "awaiting"
                             /\ res' = res

\* The parser call settles and the handler resumes.
ParserSettles ==
    /\ pc = "parsing"
    /\ \E o \in ParserOutcomes :
         /\ parserResult' = o
         /\ AfterParse(o)
    /\ UNCHANGED <<pdfParseLib, file, rulesField>>

\* The call to the model of rule check i settles and checkRuleWithLLM resumes.
LLMSettles(i) ==
    /\ pc = "awaiting"
    /\ ruleChecks[i].state = "pending"
    /\ \E o \in LLMOutcomes :
         /\ llmCalls' = [llmCalls EXCEPT ![i].outcome = o]
         /\ ruleChecks' =
              [ruleChecks EXCEPT ![i] = Settled(CheckRuleWithLLM(ruleChecks[i].rule, o))]
    /\ UNCHANGED <<pdfParseLib, file, rulesField, pc, parserResult, documentText, res>>

\* results.push(...(await Promise.all(ruleChecks))): the values by index
Collect(checks) == [i \in 1..Len(checks) |-> checks[i].value]

IsFulfilled(check) == check.state = "fulfilled"

\* The handler responds as soon as one rule check is fulfilled, with the
\* verdicts there are.
JoinOnFirstSettled ==
    /\ pc = "awaiting"
    /\ \E i \in 1..Len(ruleChecks) : IsFulfilled(ruleChecks[i])
    /\ res' = ResultsResponse(Collect(SelectSeq(ruleChecks, IsFulfilled)))
    /\ pc' = "responded"
    /\ UNCHANGED <<pdfParseLib, file, rulesField, parserResult, documentText, llmCalls,
                   ruleChecks>>

\* Promise.all settles and the handler responds.
Join ==
    /\ pc = "awaiting"
    /\ IF \E i \in 1..Len(ruleChecks) : ruleChecks[i].state = "rejected"
       THEN res' = ErrorResponse(500, ErrInternal)
       ELSE /\ \A i \in 1..Len(ruleChecks) : ruleChecks[i].state = "fulfilled"
            /\ res' = ResultsResponse(Collect(ruleChecks))
    /\ pc' = "responded"
    /\ UNCHANGED <<pdfParseLib, file, rulesField, parserResult, documentText, llmCalls,
                   ruleChecks>>

Next ==
    \/ HandleRequest
    \/ ParserSettles
    \/ \E i \in 1..Len(ruleChecks) : LLMSettles(i)
    \/ Join

Spec == Init /\ [][Next]_vars

(* ---------------------------------------------------------------------- *)
(* Properties                                                             *)
(* ---------------------------------------------------------------------- *)
Responded == pc = "responded"
Is200 == Responded /\ res.status = 200
IsError(status, message) == Responded /\ res = ErrorResponse(status, message)

RulesParse == ParseRules(rulesField)
RulesIsList == RulesParse.ok /\ RulesParse.value.t = "arr"
SubmittedRules == RulesParse.value.a

\* an entry that is a string and is not empty once trimmed
IsNonEmptyRule(e) == e.t = "str" /\ Trim(e.s) # <<>>
\* an entry that is an empty or whitespace-only string
IsBlankRule(e) == e.t = "str" /\ Trim(e.s) = <<>>

NonEmptyRules == SelectSeq(SubmittedRules, IsNonEmptyRule)

HasPDF == Truthy(file) /\ Get(file, "mimetype") = PDF
HasOtherFile == Truthy(file) /\ Get(file, "mimetype") # PDF

\* C1: a 200 response has one verdict per submitted entry that is non-empty
\* after trimming, and the i-th verdict's rule is the trimmed text of the i-th
\* such entry, in whatever order the calls to the model settled.
C1_ResultsFollowSubmissionOrder ==
    Is200 =>
        /\ Len(res.body.results) = Len(NonEmptyRules)
        /\ \A i \in 1..Len(NonEmptyRules) :
             res.body.results[i].rule = Str(Trim(NonEmptyRules[i].s))

\* two different rules, both padded or not, answered by a model that echoes
\* another rule text for the first and fails for the second
C1_Witness ==
    /\ Is200
    /\ Len(res.body.results) = 2
    /\ res.body.results[1].rule = Word("a")
    /\ res.body.results[2].rule = Str(<<"b", " ", "c">>)
    /\ res.body.results[1].evidence = Word("e1")
    /\ llmCalls[2].outcome = Reject

\* a request with a PDF file whose rules field is absent, empty, an empty list
\* or a list of empty or whitespace-only strings
NoUsableRulesRequest ==
    /\ HasPDF
    /\ RulesIsList
    /\ \A i \in 1..Len(SubmittedRules) : IsBlankRule(SubmittedRules[i])

\* C2: a request with zero rules or only empty or whitespace-only rules is
\* answered 400 "At least one rule is required" and never reaches extraction.
C2_BlankRulesRejected ==
    (NoUsableRulesRequest /\ pc # "received") => IsError(400, ErrNoRules)

IsIntegerIn(v, lo, hi) ==
    v.t = "num" /\ v.d = 1 /\ v.n >= lo /\ v.n <= hi

IsNonEmptyString(v) == v.t = "str" /\ Len(v.s) > 0

VerdictShape(v) ==
    /\ v.status \in {Word("pass"), Word("fail")}
    /\ IsIntegerIn(v.confidence, 0, 100)
    /\ IsNonEmptyString(v.evidence)
    /\ IsNonEmptyString(v.reasoning)

\* C3: every verdict of a 200 response has status "pass" or "fail", an integer
\* confidence from 0 to 100 and non-empty string evidence and reasoning.
C3_VerdictShape ==
    Is200 => \A i \in 1..Len(res.body.results) : VerdictShape(res.body.results[i])

\* the text of the reply of a settled call, when the call returned one
HasContent(o) ==
    /\ o.kind = "resolve"
    /\ ~GetThrows(o.response)
    /\ ~GetThrows(Get(o.response, "choices"))
    /\ Truthy(OptGet(OptGet(Index(Get(o.response, "choices"), 0), "message"), "content"))
ContentOf(o) ==
    OptGet(OptGet(Index(Get(o.response, "choices"), 0), "message"), "content").s

\* the call returned a reply text that is no JSON object
UnusableReply(o) ==
    /\ HasContent(o)
    /\ \/ ~JSONParse(ContentOf(o)).ok
       \/ JSONParse(ContentOf(o)).value.t # "obj"

\* C4: the API-failure verdict is produced only when the call itself failed,
\* and a returned reply that is unusable as structured data yields the
\* malformed-output verdict.
C4_FailureClassesDistinct ==
    \A i \in 1..Len(ruleChecks) :
        ruleChecks[i].state = "fulfilled" =>
            /\ ruleChecks[i].value.evidence = Word("API Error")
                 => llmCalls[i].outcome = Reject
            /\ UnusableReply(llmCalls[i].outcome)
                 => ruleChecks[i].value.evidence = Word("LLM Error")

\* C5 as stated: a file that is no PDF is answered 400 "Only PDF files are
\* supported." whatever the rules field holds.
C5_NonPDFAlwaysUnsupported ==
    (HasOtherFile /\ pc # "received") => IsError(400, ErrUnsupportedFileType)

\* C5 amended: a file that is no PDF is answered 400 "Only PDF files are
\* supported." whenever the rules field is absent or parseable JSON (a list, an
\* empty list or no list), and 400 "Rules data is malformed." when it is not
\* parseable.
C5_NonPDFUnsupportedUnlessMalformed ==
    (HasOtherFile /\ pc # "received") =>
        IF RulesParse.ok
        THEN IsError(400, ErrUnsupportedFileType)
        ELSE IsError(400, ErrMalformedRules)

\* a file that is no PDF submitted with an empty list of rules
C5_Witness ==
    /\ HasOtherFile
    /\ RulesIsList
    /\ Len(SubmittedRules) = 0
    /\ rulesField # Undefined
    /\ IsError(400, ErrUnsupportedFileType)

\* the first condition of the validation order a request violates, "none"
\* when it violates none of the four that precede extraction
FirstViolation ==
    IF ~RulesParse.ok THEN ErrMalformedRules
    ELSE IF ~Truthy(file) THEN ErrMissingFile
    ELSE IF Get(file, "mimetype") # PDF THEN ErrUnsupportedFileType
    ELSE IF \/ ~RulesIsList
            \/ \A i \in 1..Len(SubmittedRules) : IsBlankRule(SubmittedRules[i])
    THEN ErrNoRules
    ELSE "none"

\* C6: a request that violates one of the conditions MalformedRules,
\* MissingFile, UnsupportedFileType, NoRules is answered 400 with the message
\* of the first one it violates in this order, before extraction.
C6_FirstViolationWins ==
    (FirstViolation # "none" /\ pc # "received") => IsError(400, FirstViolation)

\* the call failed, or what it returned cannot be read as a JSON object
FailedOrUnusable(o) ==
    \/ o.kind = "reject"
    \/ o.kind = "resolve" /\ GetThrows(Get(o.response, "choices"))
    \/ UnusableReply(o)

\* the call returned the text of an object with all four fields of a verdict
WellFormedReply(o) ==
    /\ HasContent(o)
    /\ JSONParse(ContentOf(o)).ok
    /\ LET v == JSONParse(ContentOf(o)).value
       IN  /\ v.t = "obj"
           /\ {"status", "evidence", "reasoning", "confidence"} \subseteq DOMAIN v.f
           /\ Truthy(v.f.status) /\ Truthy(v.f.evidence) /\ Truthy(v.f.reasoning)
           /\ v.f.confidence.t = "num"

ReplyObject(o) == JSONParse(ContentOf(o)).value.f

FailurePlaceholders ==
    {Word("API Error"), Word("LLM Error"), Word("No evidence found.")}

\* C7: once rule checks were started the request ends with 200 and one verdict
\* per check; a check whose call failed or returned unusable output has status
\* "fail", confidence 0 and a placeholder as evidence, and a check whose call
\* returned a well-formed object carries that object's status, evidence,
\* reasoning and confidence, whatever happened to the other checks.
C7_FailuresIsolated ==
    (Responded /\ Len(ruleChecks) > 0) =>
        /\ Is200
        /\ Len(res.body.results) = Len(ruleChecks)
        /\ \A i \in 1..Len(ruleChecks) :
             LET o == llmCalls[i].outcome
                 v == res.body.results[i]
             IN  /\ FailedOrUnusable(o) =>
                        /\ v.status = Word("fail")
                        /\ v.confidence = Num(0, 1)
                        /\ v.evidence \in FailurePlaceholders
                 /\ WellFormedReply(o) =>
                        /\ v.status = ReplyObject(o).status
                        /\ v.evidence = ReplyObject(o).evidence
                        /\ v.reasoning = ReplyObject(o).reasoning
                        /\ v.confidence = ReplyObject(o).confidence

\* two rules, the call of the first rejected, the second answered "pass"
C7_Witness ==
    /\ Is200
    /\ Len(res.body.results) = 2
    /\ llmCalls[1].outcome = Reject
    /\ res.body.results[1].evidence = Word("API Error")
    /\ WellFormedReply(llmCalls[2].outcome)
    /\ res.body.results[2].status = Word("pass")
    /\ res.body.results[2].confidence = Num(95, 1)

\* C8: a request answered 400 or 500 has issued no call to the model.
C8_ErrorsBeforeAnyCall ==
    (Responded /\ res.status \in {400, 500}) => Len(llmCalls) = 0

\* a rules list with a non-empty rule followed by a number: the filter throws
C8_Witness ==
    /\ IsError(500, ErrInternal)
    /\ Len(SubmittedRules) = 2
    /\ IsNonEmptyRule(SubmittedRules[1])
    /\ SubmittedRules[2] = Num(7, 1)

\* C9: a rule check never rejects; once its call to the model has settled, in
\* whatever way, it is fulfilled with a verdict whose rule is the rule it was
\* called with and whose status, evidence, reasoning and confidence are defined.
C9_CheckRuleNeverThrows ==
    \A i \in 1..Len(ruleChecks) :
        /\ ruleChecks[i].state # "rejected"
        /\ llmCalls[i].outcome # Unsettled =>
             /\ ruleChecks[i].state = "fulfilled"
             /\ ruleChecks[i].value.rule = llmCalls[i].content.rule
             /\ ruleChecks[i].value.status # Undefined
             /\ ruleChecks[i].value.evidence # Undefined
             /\ ruleChecks[i].value.reasoning # Undefined
             /\ ruleChecks[i].value.confidence # Undefined

\* a check whose call returned the JSON text null, and one whose response has
\* no choices
C9_Witness ==
    /\ Len(ruleChecks) = 2
    /\ llmCalls[1].outcome = Reply(Str(<<Lit(Null)>>))
    /\ llmCalls[2].outcome = Resolve(EmptyObj)
    /\ ruleChecks[1].state = "fulfilled"
    /\ ruleChecks[2].state = "fulfilled"

\* the length of the text of what the parser returned, 0 when it has no text
ExtractedLength(pdfData) ==
    IF "text" \in DOMAIN pdfData.f THEN pdfData.f.text.length ELSE 0

\* a PDF file, a non-empty rules list and a parser to call
ReachesExtraction ==
    /\ HasPDF
    /\ RulesIsList
    /\ Len(SubmittedRules) > 0
    /\ SelectParser(pdfParseLib) # "none"

\* C10: for a PDF file and a non-empty rules list, once the parser call has
\* settled: if it threw, the response is 500 "Failed to read PDF content."; if
\* it returned a text shorter than 50 characters or no text, the response is
\* 400 with the too-short message; in both cases no rule is evaluated; only a
\* text of at least 50 characters goes on to rule evaluation.
C10_ExtractionDecides ==
    (ReachesExtraction /\ pc \notin {"received", "parsing"}) =>
        IF parserResult.kind = "throw"
        THEN IsError(500, ErrExtractionFailed) /\ llmCalls = <<>> /\ ruleChecks = <<>>
        ELSE IF ExtractedLength(parserResult.pdfData) < 50
        THEN IsError(400, ErrInsufficientContent) /\ llmCalls = <<>> /\ ruleChecks = <<>>
        ELSE /\ documentText.length >= 50
             /\ ~IsError(500, ErrExtractionFailed)
             /\ ~IsError(400, ErrInsufficientContent)

\* a text of 49 characters
C10_Witness ==
    /\ ReachesExtraction
    /\ parserResult.kind = "return"
    /\ ExtractedLength(parserResult.pdfData) = 49
    /\ IsError(400, ErrInsufficientContent)

\* C11: a request that reaches rule evaluation has issued exactly one call to
\* the model per non-empty rule, in order, all of them before any has settled,
\* and never more, also after a call failed; a response is sent only when no
\* call of the request is pending, and the 200 response holds one verdict per
\* call.
C11_OneCallPerRuleJoinedBeforeResponse ==
    /\ (pc = "awaiting" \/ Is200) =>
          /\ Len(llmCalls) = Len(NonEmptyRules)
          /\ Len(ruleChecks) = Len(llmCalls)
          /\ \A i \in 1..Len(llmCalls) :
               llmCalls[i].content.rule = Str(Trim(NonEmptyRules[i].s))
    /\ Responded =>
          \A i \in 1..Len(llmCalls) :
              /\ llmCalls[i].outcome # Unsettled
              /\ ruleChecks[i].state # "pending"
    /\ Is200 => Len(res.body.results) = Len(llmCalls)

\* two rules whose calls both failed: two calls, two verdicts, no third call
C11_Witness ==
    /\ Is200
    /\ Len(NonEmptyRules) = 2
    /\ Len(llmCalls) = 2
    /\ llmCalls[1].outcome = Reject
    /\ llmCalls[2].outcome = Reject
    /\ Len(res.body.results) = 2

====
